---- MODULE Spec2Model ----
(***************************************************************************)
(* A model of archiver.py: the configuration reader (read_archive_file),   *)
(* the options builder (build_opts, apply_manual_args), the combined match *)
(* filter (make_combined_filter) and main's exit-code mapping.             *)
(*                                                                         *)
(* Python strings are sequences of one-character strings, so that strip,   *)
(* startswith, lower, split, shlex.split, int and re.compile are computed  *)
(* character by character.  Python's None / an absent key is the empty     *)
(* sequence <<>> and a present value v is <<v>>.                           *)
(*                                                                         *)
(* A character is written as itself, as \t \n \r \f, or, when TLA+ has no  *)
(* way to write it, by its name between angle brackets: "<VT>" is U+000B,  *)
(* "<U+2003>" is the em space, "<U+0663>" the Arabic-Indic digit three.    *)
(* The alphabet is ASCII, the Unicode white space and the Arabic-Indic     *)
(* digits.                                                                 *)
(***************************************************************************)
EXTENDS Integers, Sequences, FiniteSets, TLC

VARIABLES pc, debug, file, url, extra_args, opts, warnings, exc, origin,
          engineCalls, engineOutcome, exitCode, info, reason

vars == <<pc, debug, file, url, extra_args, opts, warnings, exc, origin,
          engineCalls, engineOutcome, exitCode, info, reason>>

\* ---------------------------------------------------------------- bounds
\* Most raw lines in a configuration file.
MaxLines == 3
\* Most tokens in a list handed to build_opts directly.
MaxArgs == 4
\* Largest duration (seconds) of a candidate item.
MaxDuration == 61

\* ------------------------------------------------------- string literals
K_url == <<"u","r","l",":">>
K_addtl_args == <<"a","d","d","t","l","_","a","r","g","s",":">>
K_shorts == <<"/","s","h","o","r","t","s","/">>
F_match_title == <<"-","-","m","a","t","c","h","-","t","i","t","l","e">>
F_reject_title == <<"-","-","r","e","j","e","c","t","-","t","i","t","l","e">>
F_audio_format == <<"-","-","a","u","d","i","o","-","f","o","r","m","a","t">>
F_sleep_interval == <<"-","-","s","l","e","e","p","-","i","n","t","e","r","v","a","l">>
F_no_continue == <<"-","-","n","o","-","c","o","n","t","i","n","u","e">>
F_no_overwrites == <<"-","-","n","o","-","o","v","e","r","w","r","i","t","e","s">>
S_bestaudio == <<"b","e","s","t","a","u","d","i","o","/","b","e","s","t">>
S_downloaded == <<"d","o","w","n","l","o","a","d","e","d",".","t","x","t">>
S_cookies == <<"y","o","u","t","u","b","e",".","c","o","m","_","c","o","o","k","i","e","s",".","t","x","t">>
S_outtmpl == <<"%","(","t","i","t","l","e",")","s"," ","[","%","(","i","d",")","s","]",".","%","(","e","x","t",")","s">>
S_FFmpegExtractAudio == <<"F","F","m","p","e","g","E","x","t","r","a","c","t","A","u","d","i","o">>
S_flac == <<"f","l","a","c">>
S_0 == <<"0">>
S_post_process == <<"p","o","s","t","_","p","r","o","c","e","s","s">>
S_FFmpegMetadata == <<"F","F","m","p","e","g","M","e","t","a","d","a","t","a">>
\* The interpreter's default limit on the digits of a decimal string
\* (sys.get_int_max_str_digits()).
MaxStrDigits == 4300

T_bogus == <<"-","-","b","o","g","u","s">>
T_15 == <<"1","5">>
T_1_5 == <<"1","_","5">>
T_neg5 == <<" ","-","<U+0665>","\f">>
\* One digit more than int() converts.
T_long == [k \in 1..(MaxStrDigits + 1) |-> "1"]
T_mp3 == <<"m","p","3">>
T_lparen == <<"(">>
T_empty == <<>>
L_url_a == <<"u","r","l",":"," ","a",":","b","\n">>
L_URL_b == <<"\f"," ","U","R","L",":","<U+2003>","b","<NBSP>","\n">>
L_url_empty == <<"u","r","l",":","\n">>
L_comment == <<"#"," ","u","r","l",":"," ","d","\n">>
L_blank == <<" ","\n">>
L_args_sleep == <<"a","d","d","t","l","_","a","r","g","s",":"," ","-","-","s","l","e","e","p","-","i","n","t","e","r","v","a","l"," ","1","5","\n">>
L_args_regex == <<"A","d","d","t","l","_","A","r","g","s",":"," ","-","-","m","a","t","c","h","-","t","i","t","l","e"," ","(","\n">>
L_args_quote == <<"a","d","d","t","l","_","a","r","g","s",":"," ","'","x","\n">>
L_args_misc == <<"a","d","d","t","l","_","a","r","g","s",":"," ","-","-","n","o","-","o","v","e","r","w","r","i","t","e","s"," ","-","-","b","o","g","u","s"," "," ","-","-","r","e","j","e","c","t","-","t","i","t","l","e"," ","'","a"," ","b","'","\\"," ","c"," ","-","-","s","l","e","e","p","-","i","n","t","e","r","v","a","l"," ","x","\n">>
U_shorts == <<"h","/","s","h","o","r","t","s","/","1">>
U_watch == <<"h","/","w","a","t","c","h">>
P_ab == <<"a","b">>
P_group == <<"(","b",")">>
Ti_xAB == <<"x","A","B">>
Ti_c == <<"c">>

\* --------------------------------------------------- Python str helpers
None == <<>>
Some(v) == <<v>>

\* The characters of str.isspace(), which str.strip() removes: U+0009-000D,
\* U+001C-001F, space, U+0085, U+00A0 and the Unicode space separators.
StrWhitespace ==
  {"\t", "\n", "<VT>", "\f", "\r", "<FS>", "<GS>", "<RS>", "<US>", " ", "<NEL>", "<NBSP>",
   "<U+1680>", "<U+2000>", "<U+2001>", "<U+2002>", "<U+2003>", "<U+2004>", "<U+2005>",
   "<U+2006>", "<U+2007>", "<U+2008>", "<U+2009>", "<U+200A>", "<U+2028>", "<U+2029>",
   "<U+202F>", "<U+205F>", "<U+3000>"}
\* shlex.whitespace
ShlexWhitespace == {" ", "\t", "\r", "\n"}
\* What int() strips: the same but for U+001C-001F.
IntWhitespace == StrWhitespace \ {"<FS>", "<GS>", "<RS>", "<US>"}

UpperChars == <<"A","B","C","D","E","F","G","H","I","J","K","L","M","N","O","P","Q","R","S","T","U","V","W","X","Y","Z">>
LowerChars == <<"a","b","c","d","e","f","g","h","i","j","k","l","m","n","o","p","q","r","s","t","u","v","w","x","y","z">>

LowerChar(c) ==
  IF \E k \in 1..Len(UpperChars) : UpperChars[k] = c
  THEN LowerChars[CHOOSE k \in 1..Len(UpperChars) : UpperChars[k] = c]
  ELSE c

\* str.lower()
Lower(s) == [k \in 1..Len(s) |-> LowerChar(s[k])]

RECURSIVE LStrip(_, _)
LStrip(s, W) == IF s # <<>> /\ Head(s) \in W THEN LStrip(Tail(s), W) ELSE s

RECURSIVE RStrip(_, _)
RStrip(s, W) ==
  IF s # <<>> /\ s[Len(s)] \in W THEN RStrip(SubSeq(s, 1, Len(s) - 1), W) ELSE s

\* str.strip()
Strip(s) == RStrip(LStrip(s, StrWhitespace), StrWhitespace)

\* str.startswith(p)
StartsWith(s, p) == Len(s) >= Len(p) /\ SubSeq(s, 1, Len(p)) = p

\* p in s
Contains(s, p) ==
  \E k \in 1..(Len(s) - Len(p) + 1) : SubSeq(s, k, k + Len(p) - 1) = p

\* line.split(":", 1)[1], for a line that contains a colon
AfterColon(s) ==
  LET k == CHOOSE j \in 1..Len(s) : s[j] = ":" /\ \A h \in 1..(j - 1) : s[h] # ":"
  IN  SubSeq(s, k + 1, Len(s))

\* shlex.split(s): the POSIX-mode lexer with whitespace_split and no
\* commenters.  Whitespace separates tokens, '...' and "..." quote, a
\* backslash escapes the next character outside quotes and, inside "...",
\* the quote and the backslash only; an unclosed quote or a trailing
\* backslash raises ValueError.
\* The lexer reads the character at pos: tok is the token in progress (None
\* when there is none), q the open quote ("" when none), esc says that the
\* character before was an escaping backslash, out holds the tokens so far.
ShlexStep(s, st) ==
  LET c == s[st.pos]
      cur == IF st.tok = None THEN <<>> ELSE st.tok[1]
      nx == [st EXCEPT !.pos = st.pos + 1]
  IN  IF st.esc
      THEN IF st.q # "" /\ c # "\\" /\ c # st.q
           THEN [nx EXCEPT !.tok = Some(cur \o <<"\\", c>>), !.esc = FALSE]
           ELSE [nx EXCEPT !.tok = Some(cur \o <<c>>), !.esc = FALSE]
      ELSE IF st.q # ""
      THEN IF c = st.q THEN [nx EXCEPT !.q = ""]
           ELSE IF c = "\\" /\ st.q = "\"" THEN [nx EXCEPT !.esc = TRUE]
           ELSE [nx EXCEPT !.tok = Some(cur \o <<c>>)]
      ELSE IF c \in ShlexWhitespace THEN [nx EXCEPT !.tok = None, !.out = st.out \o st.tok]
      ELSE IF c = "\\" THEN [nx EXCEPT !.esc = TRUE]
      ELSE IF c \in {"'", "\""} THEN [nx EXCEPT !.tok = Some(cur), !.q = c]
      ELSE [nx EXCEPT !.tok = Some(cur \o <<c>>)]

RECURSIVE ShlexScan(_, _)
ShlexScan(s, st) == IF st.pos > Len(s) THEN st ELSE ShlexScan(s, ShlexStep(s, st))

ShlexSplit(s) ==
  LET st == ShlexScan(s, [pos |-> 1, tok |-> None, q |-> "", esc |-> FALSE, out |-> <<>>])
  IN  IF st.q # "" \/ st.esc THEN [ok |-> FALSE, tokens |-> <<>>]
      ELSE [ok |-> TRUE, tokens |-> st.out \o st.tok]

\* The decimal digits int() reads: ASCII and Arabic-Indic.
Digits == <<"0","1","2","3","4","5","6","7","8","9">>
ArabicIndicDigits ==
  <<"<U+0660>","<U+0661>","<U+0662>","<U+0663>","<U+0664>",
    "<U+0665>","<U+0666>","<U+0667>","<U+0668>","<U+0669>">>
IsDigit(c) == \E k \in 1..Len(Digits) : Digits[k] = c \/ ArabicIndicDigits[k] = c
DigitVal(c) == (CHOOSE k \in 1..Len(Digits) : Digits[k] = c \/ ArabicIndicDigits[k] = c) - 1

RECURSIVE DecVal(_)
DecVal(ds) ==
  IF ds = <<>> THEN 0 ELSE 10 * DecVal(SubSeq(ds, 1, Len(ds) - 1)) + DigitVal(ds[Len(ds)])

\* int(s): surrounding whitespace is stripped, an optional sign, then digits,
\* which single underscores may group, no more than MaxStrDigits of them.
IntStrip(s) == RStrip(LStrip(s, IntWhitespace), IntWhitespace)
IntBody(s) ==
  LET t == IntStrip(s)
  IN  IF t # <<>> /\ t[1] \in {"-", "+"} THEN Tail(t) ELSE t
IntOk(s) ==
  LET b == IntBody(s)
  IN  /\ b # <<>>
      /\ IsDigit(b[1])
      /\ IsDigit(b[Len(b)])
      /\ \A k \in 1..Len(b) : IsDigit(b[k]) \/ b[k] = "_"
      /\ \A k \in 1..(Len(b) - 1) : ~(b[k] = "_" /\ b[k + 1] = "_")
      /\ Len(SelectSeq(b, IsDigit)) <= MaxStrDigits
IntVal(s) ==
  LET t == IntStrip(s)
      v == DecVal(SelectSeq(IntBody(s), IsDigit))
  IN  IF t[1] = "-" THEN 0 - v ELSE v

\* re.compile(p) succeeds, for patterns with no metacharacter other than
\* parentheses (none of . ^ $ * + ? { } [ ] \ |): exactly when the
\* parentheses balance.
RECURSIVE ParenDepthOk(_, _, _)
ParenDepthOk(p, k, depth) ==
  IF k > Len(p) THEN depth = 0
  ELSE IF p[k] = "(" THEN ParenDepthOk(p, k + 1, depth + 1)
  ELSE IF p[k] = ")" THEN depth > 0 /\ ParenDepthOk(p, k + 1, depth - 1)
  ELSE ParenDepthOk(p, k + 1, depth)
ReCompileOk(p) == ParenDepthOk(p, 1, 0)

\* regex.search(t) with re.IGNORECASE for such a pattern: groups are
\* transparent, the rest matches literally, ignoring case.
ReLiteral(p) == SelectSeq(p, LAMBDA c : c \notin {"(", ")"})
ReSearch(p, t) == Contains(Lower(t), Lower(ReLiteral(p)))

\* ------------------------------------------------------ read_archive_file
\* The list comprehension of line 16: the raw lines that are not blank and
\* do not start with '#', each stripped.
KeptLines(raw) ==
  LET kept == SelectSeq(raw, LAMBDA l : Strip(l) # <<>> /\ ~StartsWith(l, <<"#">>))
  IN  [k \in 1..Len(kept) |-> Strip(kept[k])]

\* Line 23, with the value left as it stands after the colon.
UrlOf_NoStrip(line) == AfterColon(line)

\* Line 23: the value of a url: line.
UrlOf(line) == Strip(AfterColon(line))

\* The loop of lines 21-25 from line k on; u is url (None or Some), ea is
\* extra_args.  exc names the exception raised ("none": the loop ended).
RECURSIVE ReadLoop(_, _, _, _)
ReadLoop(lines, k, u, ea) ==
  IF k > Len(lines)
  THEN [exc |-> "none", url |-> u, extra_args |-> ea]
  ELSE LET line == lines[k]
       IN  IF StartsWith(Lower(line), K_url)
           THEN ReadLoop(lines, k + 1, Some(UrlOf(line)), ea)
           ELSE IF StartsWith(Lower(line), K_addtl_args)
           THEN LET sp == ShlexSplit(Strip(AfterColon(line)))
                IN  IF sp.ok THEN ReadLoop(lines, k + 1, u, ea \o sp.tokens)
                    ELSE [exc |-> "ValueError", url |-> None, extra_args |-> <<>>]
           ELSE ReadLoop(lines, k + 1, u, ea)

\* read_archive_file without the check of lines 27-28.
read_archive_file_NoUrlCheck(f) ==
  IF f = None
  THEN [exc |-> "FileNotFoundError", url |-> None, extra_args |-> <<>>]
  ELSE ReadLoop(KeptLines(f[1]), 1, None, <<>>)

\* f is None when archiveme.txt does not exist, else Some(raw lines).
read_archive_file(f) ==
  IF f = None
  THEN [exc |-> "FileNotFoundError", url |-> None, extra_args |-> <<>>]
  ELSE LET r == ReadLoop(KeptLines(f[1]), 1, None, <<>>)
       IN  IF r.exc = "none" /\ (r.url = None \/ r.url[1] = <<>>)
           THEN [exc |-> "ValueError", url |-> None, extra_args |-> <<>>]
           ELSE r

\* --------------------------------------------------- make_combined_filter
ShortLimit == 60

\* The closure returned by make_combined_filter is its captured regex;
\* re.compile raises re.error on an invalid pattern.
make_combined_filter(title_regex) ==
  IF title_regex # None /\ title_regex[1] # <<>>
  THEN IF ReCompileOk(title_regex[1])
       THEN [exc |-> "none", filter |-> [regex |-> title_regex]]
       ELSE [exc |-> "re.error", filter |-> [regex |-> None]]
  ELSE [exc |-> "none", filter |-> [regex |-> None]]

\* info.get(key, default): an item is a dict, here a function from the keys
\* it has to their values; the default stands in for an absent key only.
InfoGet(i, key, default) == IF key \in DOMAIN i THEN i[key] ELSE default

\* _filter(info): the reason is None to allow, Some(reason) to skip (the
\* third reason's text goes on with the pattern).  A webpage_url or a title
\* that is there with the value None makes `in`, or regex.search, raise
\* TypeError.
Filter(f, i) ==
  LET duration == InfoGet(i, "duration", None)
      webpage_url == InfoGet(i, "webpage_url", Some(<<>>))
      title == InfoGet(i, "title", Some(<<>>))
  IN  IF duration # None /\ duration[1] # 0 /\ i["duration"][1] < ShortLimit
      THEN [exc |-> "none", reason |-> Some("short video (<60s)")]
      ELSE IF webpage_url = None
      THEN [exc |-> "TypeError", reason |-> None]
      ELSE IF Contains(webpage_url[1], K_shorts)
      THEN [exc |-> "none", reason |-> Some("YouTube Shorts URL")]
      ELSE IF f.regex # None /\ title = None
      THEN [exc |-> "TypeError", reason |-> None]
      ELSE IF f.regex # None /\ ~ReSearch(f.regex[1], title[1])
      THEN [exc |-> "none", reason |-> Some("title doesn't match")]
      ELSE [exc |-> "none", reason |-> None]

\* ------------------------------------------------------ apply_manual_args
SetKey(o, k, v) == (k :> v) @@ o

\* nxt is truthy: there is a following token and it is not the empty string.
HasNxt(args, k) == k + 1 <= Len(args) /\ args[k + 1] # <<>>

\* Line 64 replacing the whole of entry 0 instead of one field of it.
SetCodec_ReplaceEntry(o, v) ==
  [o EXCEPT !.postprocessors[1] = [key |-> S_FFmpegExtractAudio, preferredcodec |-> v]]

\* Line 64: opts["postprocessors"][0]["preferredcodec"] = nxt
SetCodec(o, v) == [o EXCEPT !.postprocessors[1].preferredcodec = v]

\* Line 68 setting the lower bound only.
SetSleep_MinOnly(o, val) == [o EXCEPT !.min_sleep_interval = val]

\* Line 68: opts["min_sleep_interval"] = opts["max_sleep_interval"] = val
SetSleep(o, val) == [o EXCEPT !.min_sleep_interval = val, !.max_sleep_interval = val]

\* The while loop of lines 53-76 from index k on (1-based).
RECURSIVE ArgsLoop(_, _, _, _, _)
ArgsLoop(o, args, k, title_pattern, warned) ==
  IF k > Len(args)
  THEN [opts |-> o, title_pattern |-> title_pattern, warnings |-> warned]
  ELSE LET arg == args[k]
           nxt == args[k + 1]
       IN  IF arg = F_match_title /\ HasNxt(args, k)
           THEN ArgsLoop(o, args, k + 2, Some(nxt), warned)
           ELSE IF arg = F_reject_title /\ HasNxt(args, k)
           THEN ArgsLoop(SetKey(o, "reject_title", nxt), args, k + 2, title_pattern, warned)
           ELSE IF arg = F_audio_format /\ HasNxt(args, k)
           THEN ArgsLoop(SetCodec(o, nxt), args, k + 2, title_pattern, warned)
           ELSE IF arg = F_sleep_interval /\ HasNxt(args, k)
           THEN IF IntOk(nxt)
                THEN ArgsLoop(SetSleep(o, IntVal(nxt)), args, k + 2, title_pattern, warned)
                ELSE ArgsLoop(o, args, k + 1, title_pattern, Append(warned, arg))
           ELSE IF arg = F_no_continue
           THEN ArgsLoop([o EXCEPT !.continuedl = FALSE], args, k + 1, title_pattern, warned)
           ELSE IF arg = F_no_overwrites
           THEN ArgsLoop([o EXCEPT !.nooverwrites = FALSE], args, k + 1, title_pattern, warned)
           ELSE ArgsLoop(o, args, k + 1, title_pattern, warned)

\* opts is mutated in place, so it keeps the loop's changes also when the
\* rebuild of the filter (line 79) raises.
apply_manual_args(o, args) ==
  LET r == ArgsLoop(o, args, 1, None, <<>>)
      mf == make_combined_filter(r.title_pattern)
  IN  [exc |-> mf.exc,
       opts |-> IF mf.exc = "none" THEN [r.opts EXCEPT !.match_filter = mf.filter]
                ELSE r.opts,
       warnings |-> r.warnings]

\* ------------------------------------------------------------- build_opts
DefaultMinSleep == 10
DefaultMaxSleep == 60

DefaultOpts ==
  [format |-> S_bestaudio,
   min_sleep_interval |-> DefaultMinSleep,
   max_sleep_interval |-> DefaultMaxSleep,
   nooverwrites |-> TRUE,
   continuedl |-> TRUE,
   download_archive |-> S_downloaded,
   cookiefile |-> S_cookies,
   outtmpl |-> S_outtmpl,
   prefer_ffmpeg |-> TRUE,
   match_filter |-> make_combined_filter(None).filter,
   postprocessors |->
     << [key |-> S_FFmpegExtractAudio, preferredcodec |-> S_flac,
         preferredquality |-> S_0, when |-> S_post_process],
        [key |-> S_FFmpegMetadata, add_metadata |-> TRUE, when |-> S_post_process] >>]

\* build_opts setting verbose whatever debug is.
build_opts_VerboseAlways(ea, dbg) ==
  LET r == IF ea # <<>> THEN apply_manual_args(DefaultOpts, ea)
           ELSE [exc |-> "none", opts |-> DefaultOpts, warnings |-> <<>>]
  IN  [exc |-> r.exc,
       opts |-> IF r.exc = "none" THEN SetKey(r.opts, "verbose", TRUE) ELSE r.opts,
       warnings |-> r.warnings]

build_opts(ea, dbg) ==
  LET r == IF ea # <<>> THEN apply_manual_args(DefaultOpts, ea)
           ELSE [exc |-> "none", opts |-> DefaultOpts, warnings |-> <<>>]
  IN  [exc |-> r.exc,
       opts |-> IF r.exc = "none" /\ dbg THEN SetKey(r.opts, "verbose", TRUE) ELSE r.opts,
       warnings |-> r.warnings]

\* ------------------------------------------------------------------- main
NoExc == [type |-> "none", code |-> 0]
Raised(t) == [type |-> t, code |-> 0]
\* sys.exit(c) raises SystemExit(c).
SysExit(c) == [type |-> "SystemExit", code |-> c]

\* The classes an exception of each type is an instance of.
Bases(t) ==
  CASE t = "FileNotFoundError" -> {"FileNotFoundError", "OSError", "Exception", "BaseException"}
    [] t = "ValueError" -> {"ValueError", "Exception", "BaseException"}
    [] t = "re.error" -> {"re.error", "Exception", "BaseException"}
    [] t = "DownloadError" -> {"DownloadError", "Exception", "BaseException"}
    [] t = "RuntimeError" -> {"RuntimeError", "Exception", "BaseException"}
    [] t = "TypeError" -> {"TypeError", "Exception", "BaseException"}
    [] t = "KeyboardInterrupt" -> {"KeyboardInterrupt", "BaseException"}
    [] t = "SystemExit" -> {"SystemExit", "BaseException"}

\* Some except clause of lines 153-159 matches the exception; SystemExit,
\* which none matches, leaves main.
HandlerMatches(e) ==
  Bases(e.type) \cap {"FileNotFoundError", "ValueError", "KeyboardInterrupt", "Exception"} # {}

\* The except clauses of lines 153-162, in order, and the code the first one
\* that matches exits with.
OuterHandlers(e) ==
  IF Bases(e.type) \cap {"FileNotFoundError", "ValueError"} # {} THEN 1
  ELSE IF "KeyboardInterrupt" \in Bases(e.type) THEN 130
  ELSE IF "Exception" \in Bases(e.type) THEN 99
  ELSE e.code

\* The inner try of lines 143-148 when the engine answers: a normal return
\* goes on to line 150, the except clause of line 146 takes a DownloadError,
\* anything else propagates to the outer handlers.
InnerTry(outcome) ==
  IF outcome = "ok" THEN "after_ok"
  ELSE IF "DownloadError" \in Bases(outcome) THEN "inner_handler"
  ELSE "handlers"

\* What the external engine may do once invoked.
EngineOutcomes == {"ok", "DownloadError", "ValueError", "FileNotFoundError", "RuntimeError"}

\* ----------------------------------------------------------------- inputs
Lines == {L_url_a, L_URL_b, L_url_empty, L_comment, L_blank,
          L_args_sleep, L_args_regex, L_args_quote, L_args_misc}
SeqsUpTo(S, n) == UNION {[1..m -> S] : m \in 0..n}
Files == {None} \cup {Some(ls) : ls \in SeqsUpTo(Lines, MaxLines)}

Tokens == {F_match_title, F_reject_title, F_audio_format, F_sleep_interval,
           F_no_continue, F_no_overwrites, T_bogus, T_15, T_1_5, T_neg5, T_mp3,
           T_lparen, T_empty}
\* The token lists: every list of the bound, and the lists whose
\* --sleep-interval value is too long a digit string for int().
LongTokenLists == {<<F_sleep_interval, T_long>>, <<F_sleep_interval, T_15, F_sleep_interval, T_long>>}
TokenLists == SeqsUpTo(Tokens, MaxArgs) \cup LongTokenLists

\* A candidate item: each key is absent, or there with None or a value.
Durations == {None} \cup {Some(d) : d \in 0..MaxDuration}
Entries(V) == {<<>>} \cup {<<v>> : v \in V}
MkInfo(d, w, ti) ==
  LET e == [duration |-> d, webpage_url |-> w, title |-> ti]
  IN  [k \in {key \in DOMAIN e : e[key] # <<>>} |-> e[k][1]]
Infos == {MkInfo(d, w, ti) : d \in Entries(Durations),
                             w \in Entries({None, Some(U_shorts), Some(U_watch)}),
                             ti \in Entries({None, Some(Ti_xAB), Some(Ti_c)})}
FilterArgLists == {<<>>, <<F_match_title, P_ab>>, <<F_match_title, P_group>>}

\* ------------------------------------------------------------ one run of main
Init ==
  /\ pc = "main"
  /\ debug \in BOOLEAN
  /\ file \in Files
  /\ url = None
  /\ extra_args = <<>>
  /\ opts = None
  /\ warnings = <<>>
  /\ exc = NoExc
  /\ origin = "none"
  /\ engineCalls = 0
  /\ engineOutcome = "none"
  /\ exitCode = None
  /\ info = None
  /\ reason = None

\* Lines 123-126: --debug is taken off sys.argv and the try block entered.
ParseArgv ==
  /\ pc = "main"
  /\ pc' = "start"
  /\ UNCHANGED <<debug, file, url, extra_args, opts, warnings, exc, origin, engineCalls, engineOutcome, exitCode, info, reason>>

\* Line 127.
ReadConfig ==
  /\ pc = "start"
  /\ LET r == read_archive_file(file)
     IN  IF r.exc = "none"
         THEN /\ pc' = "read"
              /\ url' = r.url
              /\ extra_args' = r.extra_args
              /\ UNCHANGED <<exc, origin>>
         ELSE /\ pc' = "handlers"
              /\ exc' = Raised(r.exc)
              /\ origin' = "read_archive_file"
              /\ UNCHANGED <<url, extra_args>>
  /\ UNCHANGED <<debug, file, opts, warnings, engineCalls, engineOutcome, exitCode, info, reason>>

\* Line 128.
BuildOpts ==
  /\ pc = "read"
  /\ LET r == build_opts(extra_args, debug)
     IN  /\ warnings' = r.warnings
         /\ IF r.exc = "none"
            THEN /\ pc' = "built"
                 /\ opts' = Some(r.opts)
                 /\ UNCHANGED <<exc, origin>>
            ELSE /\ pc' = "handlers"
                 /\ exc' = Raised(r.exc)
                 /\ origin' = "build_opts"
                 /\ UNCHANGED opts
  /\ UNCHANGED <<debug, file, url, extra_args, engineCalls, engineOutcome, exitCode, info, reason>>

\* Lines 144-145: the engine is handed opts and the URL.
InvokeEngine ==
  /\ pc = "built"
  /\ pc' = "engine"
  /\ engineCalls' = engineCalls + 1
  /\ UNCHANGED <<debug, file, url, extra_args, opts, warnings, exc, origin, engineOutcome, exitCode, info, reason>>

\* Lines 143-146: the engine returns or raises.
EngineDone ==
  /\ pc = "engine"
  /\ \E outcome \in EngineOutcomes :
       /\ engineOutcome' = outcome
       /\ pc' = InnerTry(outcome)
       /\ exc' = IF InnerTry(outcome) = "handlers" THEN Raised(outcome) ELSE exc
       /\ origin' = IF outcome = "ok" THEN origin ELSE "engine"
  /\ UNCHANGED <<debug, file, url, extra_args, opts, warnings, engineCalls, exitCode, info, reason>>

\* Lines 150-151 after a normal return, lines 147-148 after a DownloadError:
\* the message is printed and sys.exit raises SystemExit inside the outer try.
InnerExit ==
  /\ pc \in {"after_ok", "inner_handler"}
  /\ pc' = "handlers"
  /\ exc' = SysExit(IF pc = "after_ok" THEN 0 ELSE 2)
  /\ UNCHANGED <<debug, file, url, extra_args, opts, warnings, origin, engineCalls, engineOutcome, exitCode, info, reason>>

\* The user interrupts the run anywhere inside the outer try block, lines
\* 127-151: KeyboardInterrupt replaces whatever was going on.  Inside
\* build_opts (line 128) the warnings of line 75 are printed one by one, and
\* the interrupt may come after any number of them, opts not yet assigned.
Interrupt ==
  /\ pc \in {"start", "read", "built", "engine", "after_ok", "inner_handler"}
  /\ IF pc = "read"
     THEN LET w == build_opts(extra_args, debug).warnings
          IN  \E k \in 0..Len(w) : warnings' = SubSeq(w, 1, k)
     ELSE UNCHANGED warnings
  /\ pc' = "handlers"
  /\ exc' = Raised("KeyboardInterrupt")
  /\ origin' = "interrupt"
  /\ UNCHANGED <<debug, file, url, extra_args, opts, engineCalls, engineOutcome, exitCode, info, reason>>

\* Lines 153, 156, 159: the first clause that matches takes the exception;
\* a SystemExit matches none, leaves main and ends the process with its code.
Handlers ==
  /\ pc = "handlers"
  /\ IF HandlerMatches(exc)
     THEN pc' = "handler" /\ UNCHANGED exitCode
     ELSE pc' = "exit" /\ exitCode' = Some(exc.code)
  /\ UNCHANGED <<debug, file, url, extra_args, opts, warnings, exc, origin, engineCalls, engineOutcome, info, reason>>

\* Lines 154-155, 157-158, 160-162: the handler prints its message and
\* calls sys.exit.
HandlerExit ==
  /\ pc = "handler"
  /\ pc' = "exit"
  /\ exc' = SysExit(OuterHandlers(exc))
  /\ exitCode' = Some(OuterHandlers(exc))
  /\ UNCHANGED <<debug, file, url, extra_args, opts, warnings, origin, engineCalls, engineOutcome, info, reason>>

\* The user interrupts the run outside the try block: before it, in lines
\* 123-124, or while a handler prints (lines 154, 157, 160-161).  No clause
\* encloses either, KeyboardInterrupt leaves main, and the process dies of
\* SIGINT with a traceback, sys.exit never called.
InterruptUncaught ==
  /\ pc \in {"main", "handler"}
  /\ pc' = "killed"
  /\ exc' = Raised("KeyboardInterrupt")
  /\ origin' = "interrupt"
  /\ UNCHANGED <<debug, file, url, extra_args, opts, warnings, engineCalls, engineOutcome, exitCode, info, reason>>

Next ==
  \/ ParseArgv \/ ReadConfig \/ BuildOpts \/ InvokeEngine \/ EngineDone \/ InnerExit
  \/ Interrupt \/ Handlers \/ HandlerExit \/ InterruptUncaught

Spec == Init /\ [][Next]_vars

\* ------------------------------------- apply_manual_args on a token list
InitArgs ==
  /\ pc = "args_call"
  /\ debug = FALSE
  /\ file = None
  /\ url = None
  /\ extra_args \in TokenLists
  /\ opts = Some(DefaultOpts)
  /\ warnings = <<>>
  /\ exc = NoExc
  /\ origin = "none"
  /\ engineCalls = 0
  /\ engineOutcome = "none"
  /\ exitCode = None
  /\ info = None
  /\ reason = None

\* apply_manual_args(opts, extra_args) on the default mapping.
ApplyManualArgs ==
  /\ pc = "args_call"
  /\ LET r == apply_manual_args(opts[1], extra_args)
     IN  /\ opts' = Some(r.opts)
         /\ warnings' = r.warnings
         /\ exc' = IF r.exc = "none" THEN NoExc ELSE Raised(r.exc)
  /\ pc' = "args_done"
  /\ UNCHANGED <<debug, file, url, extra_args, origin, engineCalls, engineOutcome, exitCode, info, reason>>

NextArgs == ApplyManualArgs

SpecArgs == InitArgs /\ [][NextArgs]_vars

\* --------------------------- the match filter on one candidate item
InitFilter ==
  /\ pc = "filter_call"
  /\ debug = FALSE
  /\ file = None
  /\ url = None
  /\ \E a \in FilterArgLists :
       /\ extra_args = a
       /\ opts = Some(build_opts(a, FALSE).opts)
  /\ warnings = <<>>
  /\ exc = NoExc
  /\ origin = "none"
  /\ engineCalls = 0
  /\ engineOutcome = "none"
  /\ exitCode = None
  /\ info \in {Some(i) : i \in Infos}
  /\ reason = None

\* The engine asks opts["match_filter"] about the candidate item.
CallFilter ==
  /\ pc = "filter_call"
  /\ LET r == Filter(opts[1].match_filter, info[1])
     IN  /\ reason' = r.reason
         /\ exc' = IF r.exc = "none" THEN exc ELSE Raised(r.exc)
  /\ pc' = "filter_done"
  /\ UNCHANGED <<debug, file, url, extra_args, opts, warnings, origin, engineCalls, engineOutcome, exitCode, info>>

NextFilter == CallFilter

SpecFilter == InitFilter /\ [][NextFilter]_vars

\* ===================================================== stated properties
\* What the statements below speak of, said without the program's loops.

\* The hard-coded defaults, written out.
HardCodedDefaults ==
  [format |-> S_bestaudio,
   min_sleep_interval |-> 10,
   max_sleep_interval |-> 60,
   nooverwrites |-> TRUE,
   continuedl |-> TRUE,
   download_archive |-> S_downloaded,
   cookiefile |-> S_cookies,
   outtmpl |-> S_outtmpl,
   prefer_ffmpeg |-> TRUE,
   match_filter |-> [regex |-> None],
   postprocessors |->
     << [key |-> S_FFmpegExtractAudio, preferredcodec |-> S_flac,
         preferredquality |-> S_0, when |-> S_post_process],
        [key |-> S_FFmpegMetadata, add_metadata |-> TRUE, when |-> S_post_process] >>]

\* A raw line of the file is a url: line, an addtl_args: line.
IsUrlLine(raw) == ~StartsWith(raw, <<"#">>) /\ StartsWith(Lower(Strip(raw)), K_url)
IsArgsLine(raw) ==
  ~StartsWith(raw, <<"#">>) /\ ~IsUrlLine(raw) /\ StartsWith(Lower(Strip(raw)), K_addtl_args)
LineValue(raw) == Strip(AfterColon(Strip(raw)))

UrlLinesOf(f) == {k \in 1..Len(f[1]) : IsUrlLine(f[1][k])}
HasUrlLine(f) == f # None /\ UrlLinesOf(f) # {}
MaxOf(S) == CHOOSE k \in S : \A j \in S : j <= k
LastUrlValue(f) == LineValue(f[1][MaxOf(UrlLinesOf(f))])
ArgsTokenise(f) ==
  \A k \in 1..Len(f[1]) : IsArgsLine(f[1][k]) => ShlexSplit(LineValue(f[1][k])).ok
RECURSIVE ArgsTokensFrom(_, _)
ArgsTokensFrom(f, k) ==
  IF k > Len(f[1]) THEN <<>>
  ELSE (IF IsArgsLine(f[1][k]) THEN ShlexSplit(LineValue(f[1][k])).tokens ELSE <<>>)
       \o ArgsTokensFrom(f, k + 1)

\* read_archive_file has just been called.
JustRead == pc = "read" \/ (pc = "handlers" /\ origin = "read_archive_file")

\* The flags of the whitelist.
ValueFlags == {F_match_title, F_reject_title, F_audio_format, F_sleep_interval}
ToggleFlags == {F_no_continue, F_no_overwrites}
HasValue(args, k) == k + 1 <= Len(args) /\ args[k + 1] # <<>>
\* A well-formed value-taking flag at k takes the token at k + 1 as its value.
TakesValue(args, k) ==
  /\ HasValue(args, k)
  /\ \/ args[k] \in {F_match_title, F_reject_title, F_audio_format}
     \/ args[k] = F_sleep_interval /\ IntOk(args[k + 1])
\* The positions read as flags in a left-to-right scan: every position that
\* is not the value of the well-formed value-taking flag before it.
RECURSIVE FlagPositionsFrom(_, _)
FlagPositionsFrom(args, k) ==
  IF k > Len(args) THEN {}
  ELSE {k} \cup FlagPositionsFrom(args, IF TakesValue(args, k) THEN k + 2 ELSE k + 1)
FlagPositions(args) == FlagPositionsFrom(args, 1)

\* The token at k is an unrecognized or a malformed flag.
Malformed(args, k) ==
  \/ StartsWith(args[k], <<"-", "-">>) /\ args[k] \notin (ValueFlags \cup ToggleFlags)
  \/ args[k] \in ValueFlags /\ ~HasValue(args, k)
  \/ args[k] = F_sleep_interval /\ HasValue(args, k) /\ ~IntOk(args[k + 1])
  \/ args[k] = F_match_title /\ HasValue(args, k) /\ ~ReCompileOk(args[k + 1])

\* ------------------------------------------------------------------- C1
\* C1: the combined filter gives a rejection reason for every candidate item
\* whose duration d satisfies 0 <= d < 60, whatever its title, URL and the
\* configured title pattern.
C1_ShortItemsRejected ==
  (pc = "filter_done" /\ "duration" \in DOMAIN info[1] /\ info[1].duration # None
     /\ info[1].duration[1] >= 0 /\ info[1].duration[1] < 60)
  => reason # None

\* ------------------------------------------------------------------- C2
\* C2: every unrecognized or malformed flag of the token list is skipped with
\* a warning, and apply_manual_args returns normally.
C2_MalformedSkippedWithWarning ==
  pc = "args_done" =>
    /\ exc = NoExc
    /\ \A k \in FlagPositions(extra_args) :
         Malformed(extra_args, k) => \E j \in 1..Len(warnings) : warnings[j] = extra_args[k]

\* ------------------------------------------------------------------- C3
\* The outcome class of a run: an interrupt, whenever it comes, makes it an
\* interrupted run; a failure of read_archive_file is a configuration error;
\* otherwise the engine's answer decides.
OutcomeClass ==
  IF origin = "interrupt" THEN "interrupt"
  ELSE IF origin = "read_archive_file" THEN "configuration"
  ELSE IF engineOutcome = "ok" THEN "success"
  ELSE IF engineOutcome = "DownloadError" THEN "download"
  ELSE "other"

\* C3: every run ends with an exit code: 0 exactly when the engine returned
\* normally, 2 exactly when it raised its download failure, 1 exactly on a
\* local configuration error, 130 on a user interrupt and 99 for every other
\* failure.
C3_ExitCodeByOutcome ==
  pc \in {"exit", "killed"} =>
    /\ exitCode # None
    /\ (exitCode = Some(0) <=> OutcomeClass = "success")
    /\ (exitCode = Some(2) <=> OutcomeClass = "download")
    /\ (exitCode = Some(1) <=> OutcomeClass = "configuration")
    /\ (OutcomeClass = "interrupt" => exitCode = Some(130))
    /\ (OutcomeClass = "other" => exitCode = Some(99))

\* ------------------------------------------------------------------- C4
\* A readable file with no url: line, or only url: lines with an empty value.
NoUrlValue(f) ==
  f # None /\ \A k \in 1..Len(f[1]) : IsUrlLine(f[1][k]) => LineValue(f[1][k]) = <<>>

\* C4: for a readable file without a url: value, read_archive_file raises a
\* configuration error, a run the user does not interrupt exits with code 1,
\* and the engine is never invoked.
C4_MissingUrlIsConfigError ==
  NoUrlValue(file) =>
    /\ engineCalls = 0
    /\ (JustRead => pc = "handlers" /\ exc = Raised("ValueError"))
    /\ pc \notin {"read", "built", "engine", "after_ok", "inner_handler"}
    /\ (pc = "exit" /\ origin # "interrupt" => exitCode = Some(1))

\* A file with an empty url: line and an addtl_args: line has exited with 1.
C4_Witness ==
  /\ NoUrlValue(file)
  /\ \E k \in 1..Len(file[1]) : IsUrlLine(file[1][k])
  /\ \E k \in 1..Len(file[1]) : IsArgsLine(file[1][k])
  /\ pc = "exit"
  /\ exitCode = Some(1)

\* ------------------------------------------------------------------- C5
\* C5 as stated: with extra_args empty, build_opts returns exactly the
\* hard-coded defaults, no key added or removed.
C5_DefaultsExactly ==
  (opts # None /\ extra_args = <<>>) => opts[1] = HardCodedDefaults

\* C5 amended: with extra_args empty, build_opts returns exactly the
\* hard-coded defaults when debug is off, and the defaults plus the one key
\* verbose = True when debug is on.
C5_DefaultsExactlyUnlessDebug ==
  (opts # None /\ extra_args = <<>>) =>
    IF debug
    THEN /\ DOMAIN opts[1] = DOMAIN HardCodedDefaults \cup {"verbose"}
         /\ opts[1]["verbose"] = TRUE
         /\ \A key \in DOMAIN HardCodedDefaults : opts[1][key] = HardCodedDefaults[key]
    ELSE opts[1] = HardCodedDefaults

\* A file with a url: line and no addtl_args: line, debug off, after build_opts.
C5_Witness ==
  /\ pc = "built"
  /\ extra_args = <<>>
  /\ ~debug
  /\ opts = Some(HardCodedDefaults)
  /\ \A k \in 1..Len(file[1]) : ~IsArgsLine(file[1][k])

\* ------------------------------------------------------------------- C6
\* The positions of the '--sleep-interval N' pairs whose N parses as an
\* integer: all adjacent pairs, and those whose flag is read as a flag.
SleepPairs(args) ==
  {k \in 1..(Len(args) - 1) : args[k] = F_sleep_interval /\ IntOk(args[k + 1])}
SleepPairsRead(args) == SleepPairs(args) \cap FlagPositions(args)

SleepFieldsFollow(o, args, pairs) ==
  IF pairs = {}
  THEN o.min_sleep_interval = 10 /\ o.max_sleep_interval = 60
  ELSE /\ o.min_sleep_interval = IntVal(args[MaxOf(pairs) + 1])
       /\ o.max_sleep_interval = IntVal(args[MaxOf(pairs) + 1])

\* C6 as stated: after apply_manual_args both sleep fields equal the N of the
\* last '--sleep-interval N' pair of the list whose N parses as an integer,
\* and are 10 and 60 if there is none.
C6_LastSleepPairInList ==
  pc = "args_done" => SleepFieldsFollow(opts[1], extra_args, SleepPairs(extra_args))

\* C6 amended: both sleep fields equal the N of the last '--sleep-interval N'
\* pair whose N parses as an integer and whose --sleep-interval token is read
\* as a flag (it is not the value of the value-taking flag before it), and
\* are 10 and 60 if there is none; so min <= max in every resulting mapping.
C6_LastSleepPairRead ==
  pc = "args_done" =>
    /\ SleepFieldsFollow(opts[1], extra_args, SleepPairsRead(extra_args))
    /\ opts[1].min_sleep_interval <= opts[1].max_sleep_interval

\* Two pairs with different values have been read, and the later one stands.
C6_Witness ==
  /\ pc = "args_done"
  /\ \E j, k \in SleepPairsRead(extra_args) :
       /\ j < k
       /\ k = MaxOf(SleepPairsRead(extra_args))
       /\ IntVal(extra_args[j + 1]) # IntVal(extra_args[k + 1])
       /\ opts[1].min_sleep_interval = IntVal(extra_args[k + 1])
       /\ opts[1].max_sleep_interval = IntVal(extra_args[k + 1])

\* ------------------------------------------------------------------- C7
\* C7 as stated: for every file with at least one url: line, read_archive_file
\* returns the trimmed value of the last url: line.
C7_UrlOfEveryFileWithUrlLine ==
  (JustRead /\ HasUrlLine(file)) => (pc = "read" /\ url = Some(LastUrlValue(file)))

\* C7 amended: for every file with at least one url: line, whose last url:
\* line has a non-empty value and whose addtl_args: lines all tokenise,
\* read_archive_file returns the trimmed value of the last url: line, and the
\* tokens of the addtl_args: lines in order; blank lines and lines beginning
\* with '#' contribute to neither.
C7_UrlOfWellFormedFile ==
  (JustRead /\ HasUrlLine(file) /\ LastUrlValue(file) # <<>> /\ ArgsTokenise(file)) =>
    /\ pc = "read"
    /\ url = Some(LastUrlValue(file))
    /\ extra_args = ArgsTokensFrom(file, 1)

\* A file with two url: lines of different values and a '#' line has been read.
C7_Witness ==
  /\ pc = "read"
  /\ Cardinality(UrlLinesOf(file)) >= 2
  /\ \E j \in UrlLinesOf(file) : LineValue(file[1][j]) # LastUrlValue(file)
  /\ \E j \in 1..Len(file[1]) : StartsWith(file[1][j], <<"#">>)
  /\ url = Some(LastUrlValue(file))

\* ------------------------------------------------------------------- C8
\* C8: the engine is invoked at most once, only after read_archive_file and
\* build_opts have completed, and a run that ends with exit code 1 never
\* invoked the engine.
C8_ExitOneNeverInvokedEngine ==
  /\ engineCalls <= 1
  /\ (engineCalls = 1 => url # None /\ opts # None)
  /\ (pc = "exit" /\ exitCode = Some(1) => engineCalls = 0)

\* ------------------------------------------------------------------- C9
\* Some token of the list is flag, followed by a non-empty value.
AppearsWithValue(args, flag) == \E k \in 1..Len(args) : args[k] = flag /\ HasValue(args, k)
Appears(args, flag) == \E k \in 1..Len(args) : args[k] = flag

\* C9: after apply_manual_args every default key is still there, reject_title
\* is the only key that may be added, a key differs from its default only if
\* a well-formed flag targeting it is in the list, and the postprocessor chain
\* keeps its two entries in order, only preferredcodec of entry 0 changing.
C9_DefaultsKeptUnlessTargeted ==
  pc = "args_done" =>
    LET o == opts[1]
        d == HardCodedDefaults
        a == extra_args
    IN  /\ DOMAIN d \subseteq DOMAIN o
        /\ DOMAIN o \subseteq DOMAIN d \cup {"reject_title"}
        /\ ("reject_title" \in DOMAIN o => AppearsWithValue(a, F_reject_title))
        /\ \A key \in {"format", "download_archive", "cookiefile", "outtmpl", "prefer_ffmpeg"} :
             o[key] = d[key]
        /\ (o["min_sleep_interval"] # 10 \/ o["max_sleep_interval"] # 60
              => SleepPairs(a) # {})
        /\ (o["continuedl"] # TRUE => Appears(a, F_no_continue))
        /\ (o["nooverwrites"] # TRUE => Appears(a, F_no_overwrites))
        /\ (o["match_filter"] # d["match_filter"] => AppearsWithValue(a, F_match_title))
        /\ Len(o["postprocessors"]) = 2
        /\ o["postprocessors"][2] = d["postprocessors"][2]
        /\ [o["postprocessors"][1] EXCEPT !["preferredcodec"] = S_flac] = d["postprocessors"][1]
        /\ (o["postprocessors"][1]["preferredcodec"] # S_flac
              => AppearsWithValue(a, F_audio_format))

\* --audio-format mp3 and --reject-title have both been applied.
C9_Witness ==
  /\ pc = "args_done"
  /\ exc = NoExc
  /\ "reject_title" \in DOMAIN opts[1]
  /\ opts[1]["postprocessors"][1]["preferredcodec"] = T_mp3
  /\ opts[1]["postprocessors"][2] = HardCodedDefaults["postprocessors"][2]

\* ------------------------------------------------------------------ C10
\* C10: whenever --no-overwrites is read as a flag the mapping has
\* nooverwrites = True, and continuedl is switched off by --no-continue only.
C10_NoOverwritesKeepsNoClobber ==
  pc = "args_done" =>
    /\ ((\E k \in FlagPositions(extra_args) : extra_args[k] = F_no_overwrites)
          => opts[1].nooverwrites = TRUE)
    /\ (opts[1].continuedl = FALSE
          => \E k \in FlagPositions(extra_args) : extra_args[k] = F_no_continue)
====
